---- MODULE Spec2Model ----
(***************************************************************************)
(* SealBid sealed-bid auctions: the three Move auction modules             *)
(* (seal_bid::simple_auction, seal_bid::auction,                           *)
(* seal_bid::enhanced_auction) as one state machine over a single auction  *)
(* object, a monotonic clock and the coins that leave the auction.         *)
(* Every entry function is one action: a Move abort rolls the whole        *)
(* transaction back, so a failed call changes nothing but the record of    *)
(* the call itself.                                                        *)
(***************************************************************************)
EXTENDS Integers, Sequences, FiniteSets, TLC

\* ------------------------------------------------------------------ bounds

MaxTime == 2        \* the clock runs 0 .. MaxTime
MaxBids == 2        \* recorded bids per auction
MaxPayment == 2     \* value of a payment coin, 0 .. MaxPayment
MaxSupply == 2      \* total_supply argument, 0 .. MaxSupply
MaxWinners == 2     \* winner_count argument, 0 .. MaxWinners
MaxPayouts == 1     \* successful refund / distribute_tokens calls (auction, enhanced_auction)
MAX_U64 == 50       \* the largest u64, scaled down; arithmetic beyond it aborts
SelMaxBids == 4     \* recorded bids of an auction about to be settled
SelSupply == 11     \* total_supply of an auction about to be settled
ParseMaxLen == 3    \* longest bid payload of an auction whose revelation is examined
OrdMaxBids == 3     \* most bids of an auction whose arrival orders are compared

\* ------------------------------------------------------- program constants

STRATEGY_TOP_N == 0
STRATEGY_RANDOM_N == 1
STRATEGY_CLOSEST_TO_AVG == 2
U64_BYTES == 8          \* bytes of a BCS-encoded u64
BYTE_RANGE == 256       \* values of a u8

Ok == "Ok"
EAuctionNotStarted == "EAuctionNotStarted"
EAuctionEnded == "EAuctionEnded"
EAuctionNotEnded == "EAuctionNotEnded"
ENotAuctionCreator == "ENotAuctionCreator"
EAlreadyFinalized == "EAlreadyFinalized"
EInvalidBid == "EInvalidBid"
EInvalidStrategy == "EInvalidStrategy"
EInsufficientPayment == "EInsufficientPayment"
E_NOT_MINTABLE == "E_NOT_MINTABLE"
E_INVALID_AMOUNT == "E_INVALID_AMOUNT"
EArithmetic == "ARITHMETIC_ERROR"        \* the VM's abort on u64 overflow or division by zero
EBalanceNotEnough == "ENotEnough"        \* sui::balance::split on more than the balance
EBalanceNonZero == "ENonZero"            \* sui::balance::destroy_zero on a nonzero balance
ENoAccess == "ENoAccess"
EBcsOutOfRange == "EOutOfRange"          \* sui::bcs peeling past the end of the bytes

\* ------------------------------------------------------------ input sets

Addr == {"A", "B", "C"}
Modules == {"simple_auction", "auction", "enhanced_auction"}
Strategies == 0 .. (STRATEGY_CLOSEST_TO_AVG + 1)
Times == 0 .. MaxTime
\* the sender of a constructor call; the addresses are interchangeable
Creators == {"A"}
\* bid payloads of simple_auction, which parses them: "1" and "3a"
Payloads == {<<49>>, <<51, 97>>}
\* bid payloads of auction and enhanced_auction, which store them and never read them
OpaquePayloads == {<<1, 2, 3>>}
\* the strategy argument there: one accepted value and the rejected one
StoredStrategies == {STRATEGY_TOP_N, STRATEGY_CLOSEST_TO_AVG + 1}
\* transaction digests, scaled from 32 bytes to 2
Digests == {<<0, 0>>, <<0, 1>>, <<1, 0>>, <<1, 1>>}

VARIABLES
    now,             \* sui::clock timestamp_ms
    live,            \* "none" before creation, "shared" while the object exists, "deleted" after cancel
    module,          \* which module's auction object this is
    creator,
    total_supply,
    winner_count,
    strategy,
    start_time,
    end_time,
    encrypted_bids,  \* sequence of EncryptedBid
    payment_pool,    \* value of the Balance<SUI>
    finalized,
    treasury_cap,    \* [owner, mintable, total_supply]
    refunded,        \* SUI coins transferred out of payment_pool, in order: [recipient, amount]
    minted,          \* tokens minted through treasury_cap, in order: [recipient, amount]
    events,          \* winner_count of every finalized event emitted, in order
    finalized_at,    \* clock value read by every finalize call that succeeded, in order
    revealed,        \* amounts parse_bid_amount returned in the finalize that succeeded, by bid
    key_id,          \* the id presented to seal_approve for this auction's bids
    call             \* the last call that succeeded in the current clock instant: [op, sender]

vars == <<now, live, module, creator, total_supply, winner_count, strategy, start_time,
          end_time, encrypted_bids, payment_pool, finalized, treasury_cap, refunded,
          minted, events, finalized_at, revealed, key_id, call>>

params == <<module, creator, total_supply, winner_count, strategy, start_time, end_time,
            key_id>>
ledger == <<encrypted_bids, payment_pool, finalized, treasury_cap, refunded, minted,
            events, finalized_at, revealed>>

NoCall == [op |-> "none", sender |-> "A"]

Call(op, sender) == [op |-> op, sender |-> sender]

\* ------------------------------------------------------------- helpers

Min(a, b) == IF a < b THEN a ELSE b

RECURSIVE SumPayments(_)
SumPayments(bids) ==
    IF bids = <<>> THEN 0
    ELSE Head(bids).payment_amount + SumPayments(Tail(bids))

RECURSIVE SumAmounts(_)
SumAmounts(log) ==
    IF log = <<>> THEN 0
    ELSE Head(log).amount + SumAmounts(Tail(log))

\* total a log pays to one address
RECURSIVE PaidTo(_, _)
PaidTo(log, a) ==
    IF log = <<>> THEN 0
    ELSE (IF Head(log).recipient = a THEN Head(log).amount ELSE 0) + PaidTo(Tail(log), a)

\* total one address posted as bid payments
RECURSIVE PostedBy(_, _)
PostedBy(bids, a) ==
    IF bids = <<>> THEN 0
    ELSE (IF Head(bids).bidder = a THEN Head(bids).payment_amount ELSE 0)
         + PostedBy(Tail(bids), a)

Bidders(bids) == {bids[i].bidder : i \in 1 .. Len(bids)}

\* mutant: the new bid is put in front of the recorded ones
PushFront(bids, bid) == <<bid>> \o bids

\* vector::push_back
PushBack(bids, bid) == Append(bids, bid)

\* mutant: the payment is taken and not added to the pool
JoinNothing(pool, payment) == pool

\* sui::balance::join
Join(pool, payment) == pool + payment

\* ------------------------------------------- simple_auction: revelation

Aborted == MAX_U64 + 1      \* stands for a u64 computation that aborted

IsDigit(byte) == byte >= 48 /\ byte <= 57

\* the loop of parse_bid_amount from position i (1-based) with accumulator result
RECURSIVE ParseFrom(_, _, _)
ParseFrom(encrypted_data, i, result) ==
    IF i > Len(encrypted_data) THEN result
    ELSE IF IsDigit(encrypted_data[i])
         THEN IF result * 10 + (encrypted_data[i] - 48) > MAX_U64
              THEN Aborted
              ELSE ParseFrom(encrypted_data, i + 1, result * 10 + (encrypted_data[i] - 48))
         ELSE ParseFrom(encrypted_data, i + 1, result)

parse_bid_amount(encrypted_data) ==
    IF Len(encrypted_data) = 0 THEN 0 ELSE ParseFrom(encrypted_data, 1, 0)

\* step 1 of finalize_simple_auction: one DecryptedBid per recorded bid
DecryptAll(bids) ==
    [i \in 1 .. Len(bids) |->
        [bidder |-> bids[i].bidder,
         amount |-> parse_bid_amount(bids[i].encrypted_data),
         payment |-> bids[i].payment_amount,
         index |-> i - 1]]

DecryptAborts(bids) ==
    \E i \in 1 .. Len(bids) : parse_bid_amount(bids[i].encrypted_data) = Aborted

\* ------------------------------------------- simple_auction: selection

Swap(s, j) == [s EXCEPT ![j] = s[j + 1], ![j + 1] = s[j]]

\* mutant: the sorted list is returned whole
TakeAll(s, n) == s

Take(s, n) == [i \in 1 .. n |-> s[i]]

\* mutant: equal amounts are swapped too
DescOutOfOrderTies(bid_j, bid_j_plus_1) == bid_j.amount <= bid_j_plus_1.amount

\* the swap condition of bubble_sort_desc
DescOutOfOrder(bid_j, bid_j_plus_1) == bid_j.amount < bid_j_plus_1.amount

\* inner loop of bubble_sort_desc: j (0-based) runs up to len - 1 - i
RECURSIVE DescInner(_, _, _)
DescInner(bids, j, limit) ==
    IF j >= limit THEN bids
    ELSE DescInner(IF DescOutOfOrder(bids[j + 1], bids[j + 2]) THEN Swap(bids, j + 1) ELSE bids,
                   j + 1, limit)

RECURSIVE DescOuter(_, _)
DescOuter(bids, i) ==
    IF i >= Len(bids) - 1 THEN bids
    ELSE DescOuter(DescInner(bids, 0, Len(bids) - 1 - i), i + 1)

bubble_sort_desc(bids) == IF Len(bids) <= 1 THEN bids ELSE DescOuter(bids, 0)

\* mutant: the first n bids in arrival order win
select_top_n_winners_arrival(bids, n) ==
    Take(bids, IF Len(bids) < n THEN Len(bids) ELSE n)

select_top_n_winners(bids, n) ==
    Take(bubble_sort_desc(bids), IF Len(bids) < n THEN Len(bids) ELSE n)

Distance(amount, average) == IF amount > average THEN amount - average ELSE average - amount

RECURSIVE DistInner(_, _, _, _)
DistInner(bids, j, limit, average) ==
    IF j >= limit THEN bids
    ELSE DistInner(IF Distance(bids[j + 1].amount, average) > Distance(bids[j + 2].amount, average)
                   THEN Swap(bids, j + 1) ELSE bids,
                   j + 1, limit, average)

RECURSIVE DistOuter(_, _, _)
DistOuter(bids, i, average) ==
    IF i >= Len(bids) - 1 THEN bids
    ELSE DistOuter(DistInner(bids, 0, Len(bids) - 1 - i, average), i + 1, average)

bubble_sort_by_distance(bids, average) ==
    IF Len(bids) <= 1 THEN bids ELSE DistOuter(bids, 0, average)

\* the summing loop of select_closest_to_avg_winners; aborts on u64 overflow
RECURSIVE TotalFrom(_, _, _)
TotalFrom(bids, i, total) ==
    IF i > Len(bids) THEN total
    ELSE IF total + bids[i].amount > MAX_U64 THEN Aborted
         ELSE TotalFrom(bids, i + 1, total + bids[i].amount)

AverageAborts(bids) == Len(bids) = 0 \/ TotalFrom(bids, 1, 0) = Aborted

select_closest_to_avg_winners(bids, n) ==
    Take(bubble_sort_by_distance(bids, TotalFrom(bids, 1, 0) \div Len(bids)),
         IF Len(bids) < n THEN Len(bids) ELSE n)

\* mutant: no index counts as selected
ContainsNever(s, x) == FALSE

Contains(s, x) == \E k \in 1 .. Len(s) : s[k] = x

\* mutant: the scan takes the largest index not yet selected
LastUnselected(selected_indices, j, bid_count) ==
    IF \A x \in j .. bid_count - 1 : Contains(selected_indices, x) THEN bid_count
    ELSE CHOOSE x \in j .. bid_count - 1 :
            /\ ~Contains(selected_indices, x)
            /\ \A y \in j .. bid_count - 1 : ~Contains(selected_indices, y) => y <= x

\* first j (0-based) in 0 .. bid_count - 1 not yet selected; bid_count if there is none
RECURSIVE FirstUnselected(_, _, _)
FirstUnselected(selected_indices, j, bid_count) ==
    IF j >= bid_count THEN bid_count
    ELSE IF ~Contains(selected_indices, j) THEN j
         ELSE FirstUnselected(selected_indices, j + 1, bid_count)

\* the loop of select_random_n_winners: the indices selected, in pick order
RECURSIVE RandomIndices(_, _, _, _, _)
RandomIndices(seed, i, winnerCount, bid_count, selected_indices) ==
    IF ~(i < winnerCount /\ i < bid_count) THEN selected_indices
    ELSE LET random_index == seed[(i % Len(seed)) + 1] % bid_count
             j == FirstUnselected(selected_indices, 0, bid_count)
             next == IF ~Contains(selected_indices, random_index)
                     THEN Append(selected_indices, random_index)
                     ELSE IF j < bid_count THEN Append(selected_indices, j)
                          ELSE selected_indices
         IN RandomIndices(seed, i + 1, winnerCount, bid_count, next)

select_random_n_winners(bids, n, seed) ==
    LET picked == RandomIndices(seed, 0, IF Len(bids) < n THEN Len(bids) ELSE n,
                                Len(bids), <<>>)
    IN [k \in 1 .. Len(picked) |-> bids[picked[k] + 1]]

\* step 2 of finalize_simple_auction
SelectWinners(decrypted_bids, strat, n, seed) ==
    IF strat = STRATEGY_TOP_N THEN select_top_n_winners(decrypted_bids, n)
    ELSE IF strat = STRATEGY_RANDOM_N THEN select_random_n_winners(decrypted_bids, n, seed)
    ELSE select_closest_to_avg_winners(decrypted_bids, n)

\* ------------------------------------------- simple_coin_factory

\* mint_simple_coin on a SimpleTreasuryCap registered in the registry
mint_simple_coin(treasury, amount) ==
    IF ~treasury.mintable THEN [code |-> E_NOT_MINTABLE, treasury |-> treasury]
    ELSE IF ~(amount > 0) THEN [code |-> E_INVALID_AMOUNT, treasury |-> treasury]
    ELSE IF treasury.total_supply + amount > MAX_U64
         THEN [code |-> EArithmetic, treasury |-> treasury]
    ELSE [code |-> Ok,
          treasury |-> [treasury EXCEPT !.total_supply = treasury.total_supply + amount]]

\* ------------------------------------------- simple_auction: settlement

\* step 3 of finalize_simple_auction from winner j (1-based): one mint per winner
RECURSIVE MintAll(_, _, _, _, _)
MintAll(treasury, winners, j, amount_per_winner, log) ==
    IF j > Len(winners) THEN [code |-> Ok, treasury |-> treasury, log |-> log]
    ELSE LET m == mint_simple_coin(treasury, amount_per_winner)
         IN IF m.code # Ok THEN [code |-> m.code, treasury |-> treasury, log |-> log]
            ELSE MintAll(m.treasury, winners, j + 1, amount_per_winner,
                         Append(log, [recipient |-> winners[j].bidder,
                                      amount |-> amount_per_winner]))

\* mutant: the refund keeps one unit back
RefundCoinShort(bid) == [recipient |-> bid.bidder, amount |-> bid.payment_amount - 1]

\* the coin one pass of the refund loop splits off the pool and transfers
RefundCoin(bid) == [recipient |-> bid.bidder, amount |-> bid.payment_amount]

\* the refund loop of finalize_simple_auction and cancel_simple_auction from bid k (1-based)
RECURSIVE RefundAll(_, _, _, _)
RefundAll(pool, bids, k, log) ==
    IF k > Len(bids) THEN [code |-> Ok, pool |-> pool, log |-> log]
    ELSE IF bids[k].payment_amount > 0
         THEN IF RefundCoin(bids[k]).amount > pool
              THEN [code |-> EBalanceNotEnough, pool |-> pool, log |-> log]
              ELSE RefundAll(pool - RefundCoin(bids[k]).amount, bids, k + 1,
                             Append(log, RefundCoin(bids[k])))
         ELSE RefundAll(pool, bids, k + 1, log)

\* mutant: only the bids that did not win are refunded
RefundedLosers(bids, winners) ==
    SelectSeq(bids, LAMBDA b : \A w \in 1 .. Len(winners) : bids[winners[w].index + 1] # b)

\* the bids the refund loop of finalize_simple_auction walks: all of them
RefundedBids(bids, winners) == bids

\* mutant: the share is rounded up
AmountPerWinnerCeil(supply, actual_winner_count) ==
    (supply + actual_winner_count - 1) \div actual_winner_count

\* amount_per_winner of finalize_simple_auction
AmountPerWinner(supply, actual_winner_count) == supply \div actual_winner_count

\* the body of finalize_simple_auction after finalized is set, for at least one bid
Settle(bids, strat, n, supply, treasury, pool, seed) ==
    IF DecryptAborts(bids)
    THEN [code |-> EArithmetic, winners |-> <<>>, treasury |-> treasury,
          minted |-> <<>>, pool |-> pool, refunded |-> <<>>]
    ELSE IF strat = STRATEGY_CLOSEST_TO_AVG /\ AverageAborts(DecryptAll(bids))
    THEN [code |-> EArithmetic, winners |-> <<>>, treasury |-> treasury,
          minted |-> <<>>, pool |-> pool, refunded |-> <<>>]
    ELSE LET winners == SelectWinners(DecryptAll(bids), strat, n, seed)
             actual_winner_count == Len(winners)
             mints == IF actual_winner_count > 0
                      THEN MintAll(treasury, winners, 1,
                                   AmountPerWinner(supply, actual_winner_count), <<>>)
                      ELSE [code |-> Ok, treasury |-> treasury, log |-> <<>>]
             refunds == RefundAll(pool, RefundedBids(bids, winners), 1, <<>>)
         IN IF mints.code # Ok
            THEN [code |-> mints.code, winners |-> winners, treasury |-> treasury,
                  minted |-> <<>>, pool |-> pool, refunded |-> <<>>]
            ELSE IF refunds.code # Ok
            THEN [code |-> refunds.code, winners |-> winners, treasury |-> treasury,
                  minted |-> <<>>, pool |-> pool, refunded |-> <<>>]
            ELSE [code |-> Ok, winners |-> winners, treasury |-> mints.treasury,
                  minted |-> mints.log, pool |-> refunds.pool, refunded |-> refunds.log]

\* ------------------------------------------- guards (the asserts, in order)

\* mutant: end_time is compared with the clock only
CreateSimpleGuardNoOrder(strat, start, end, current_time) ==
    IF ~(strat <= STRATEGY_CLOSEST_TO_AVG) THEN EInvalidStrategy
    ELSE IF ~(end > current_time) THEN EAuctionEnded
    ELSE Ok

CreateSimpleGuard(strat, start, end, current_time) ==
    IF ~(strat <= STRATEGY_CLOSEST_TO_AVG) THEN EInvalidStrategy
    ELSE IF ~(end > current_time) THEN EAuctionEnded
    ELSE IF ~(end > start) THEN EAuctionEnded
    ELSE Ok

CreateAuctionGuard(strat, start, end) ==
    IF ~(strat <= STRATEGY_CLOSEST_TO_AVG) THEN EInvalidStrategy ELSE Ok

CreateEnhancedGuard(strat, start, end) ==
    IF ~(strat <= STRATEGY_CLOSEST_TO_AVG) THEN EInvalidStrategy
    ELSE IF ~(start < end) THEN EInvalidBid
    ELSE Ok

\* mutant: a bid without payment is accepted
PlaceSimpleBidGuardNoPayment(current_time, payment_amount) ==
    IF ~(current_time >= start_time) THEN EAuctionNotStarted
    ELSE IF ~(current_time < end_time) THEN EAuctionEnded
    ELSE IF finalized THEN EAlreadyFinalized
    ELSE Ok

\* mutant: bids are accepted before start_time
PlaceSimpleBidGuardNoStart(current_time, payment_amount) ==
    IF ~(current_time < end_time) THEN EAuctionEnded
    ELSE IF finalized THEN EAlreadyFinalized
    ELSE IF ~(payment_amount > 0) THEN EInsufficientPayment
    ELSE Ok

\* mutant: the bid is checked against start_time and for a payment only
PlaceSimpleBidGuardNoClose(current_time, payment_amount) ==
    IF ~(current_time >= start_time) THEN EAuctionNotStarted
    ELSE IF ~(payment_amount > 0) THEN EInsufficientPayment
    ELSE Ok

PlaceSimpleBidGuard(current_time, payment_amount) ==
    IF ~(current_time >= start_time) THEN EAuctionNotStarted
    ELSE IF ~(current_time < end_time) THEN EAuctionEnded
    ELSE IF finalized THEN EAlreadyFinalized
    ELSE IF ~(payment_amount > 0) THEN EInsufficientPayment
    ELSE Ok

\* mutant: bids are accepted after end_time
PlaceBidGuardNoClose(current_time) ==
    IF ~(current_time >= start_time) THEN EAuctionNotStarted
    ELSE IF finalized THEN EAlreadyFinalized
    ELSE Ok

PlaceBidGuard(current_time) ==
    IF ~(current_time >= start_time) THEN EAuctionNotStarted
    ELSE IF ~(current_time < end_time) THEN EAuctionEnded
    ELSE IF finalized THEN EAlreadyFinalized
    ELSE Ok

\* mutant: anyone may finalize
FinalizeSimpleGuardNoCreator(current_time, sender) ==
    IF ~(current_time >= end_time) THEN EAuctionNotEnded
    ELSE IF finalized THEN EAlreadyFinalized
    ELSE Ok

\* mutant: the finalized flag is not checked
FinalizeSimpleGuardNoFlag(current_time, sender) ==
    IF ~(current_time >= end_time) THEN EAuctionNotEnded
    ELSE IF ~(sender = creator) THEN ENotAuctionCreator
    ELSE Ok

\* mutant: the clock is not checked
FinalizeSimpleGuardNoTime(current_time, sender) ==
    IF ~(sender = creator) THEN ENotAuctionCreator
    ELSE IF finalized THEN EAlreadyFinalized
    ELSE Ok

FinalizeSimpleGuard(current_time, sender) ==
    IF ~(current_time >= end_time) THEN EAuctionNotEnded
    ELSE IF ~(sender = creator) THEN ENotAuctionCreator
    ELSE IF finalized THEN EAlreadyFinalized
    ELSE Ok

\* mutant: the clock is not checked
FinalizeGuardNoTime(current_time, sender) ==
    IF ~(sender = creator) THEN ENotAuctionCreator
    ELSE IF finalized THEN EAlreadyFinalized
    ELSE Ok

FinalizeGuard(current_time, sender) ==
    IF ~(current_time >= end_time) THEN EAuctionNotEnded
    ELSE IF ~(sender = creator) THEN ENotAuctionCreator
    ELSE IF finalized THEN EAlreadyFinalized
    ELSE Ok

\* mutant: the creator may cancel at any time
CancelGuardNoTime(current_time, sender) ==
    IF ~(sender = creator) THEN ENotAuctionCreator ELSE Ok

CancelGuard(current_time, sender) ==
    IF ~(current_time < start_time) THEN EAuctionNotStarted
    ELSE IF ~(sender = creator) THEN ENotAuctionCreator
    ELSE Ok

\* distribute_tokens and refund share their two asserts
\* mutant: the finalized flag is not checked
PayoutGuardNoFinalized(sender) ==
    IF ~(sender = creator) THEN ENotAuctionCreator ELSE Ok

PayoutGuard(sender) ==
    IF ~finalized THEN EInvalidBid
    ELSE IF ~(sender = creator) THEN ENotAuctionCreator
    ELSE Ok

\* ------------------------------------------- seal_integration: the time lock

\* bcs::to_bytes of a u64: k bytes, least significant first
RECURSIVE ToBytes(_, _)
ToBytes(v, k) ==
    IF k = 0 THEN <<>> ELSE <<v % BYTE_RANGE>> \o ToBytes(v \div BYTE_RANGE, k - 1)

generate_key_id(end) == ToBytes(end, U64_BYTES)

\* bcs::peel_u64 on at least U64_BYTES bytes
RECURSIVE PeelFrom(_, _)
PeelFrom(bytes, i) ==
    IF i > U64_BYTES THEN 0 ELSE bytes[i] + BYTE_RANGE * PeelFrom(bytes, i + 1)

peel_u64(bytes) == PeelFrom(bytes, 1)

\* bcs::into_remainder_bytes after the u64
Leftovers(bytes) == SubSeq(bytes, U64_BYTES + 1, Len(bytes))

\* peel_u64 aborts when fewer than U64_BYTES bytes are left
PolicyAborts(id) == Len(id) < U64_BYTES

\* mutant: the lock opens one tick after end_time
check_time_lock_policy_late(id, current_time) ==
    Len(Leftovers(id)) = 0 /\ current_time > peel_u64(id)

check_time_lock_policy(id, current_time) ==
    Len(Leftovers(id)) = 0 /\ current_time >= peel_u64(id)

\* what a seal_approve call returns: Ok or the abort code
SealApproveCode(id, current_time) ==
    IF PolicyAborts(id) THEN EBcsOutOfRange
    ELSE IF ~check_time_lock_policy(id, current_time) THEN ENoAccess
    ELSE Ok

\* ------------------------------------------------------------ initial state

\* mutant: the constructor leaves the cap with its sender
KeptCap(sender, mintable) == [owner |-> sender, mintable |-> mintable, total_supply |-> 0]

\* the treasury cap a constructor takes by value and stores in the auction
HeldCap(sender, mintable) == [owner |-> "auction", mintable |-> mintable, total_supply |-> 0]

Init ==
    /\ now = 0
    /\ live = "none"
    /\ module = "simple_auction"
    /\ creator = "A"
    /\ total_supply = 0
    /\ winner_count = 0
    /\ strategy = 0
    /\ start_time = 0
    /\ end_time = 0
    /\ encrypted_bids = <<>>
    /\ payment_pool = 0
    /\ finalized = FALSE
    /\ treasury_cap = [owner |-> "A", mintable |-> TRUE, total_supply |-> 0]
    /\ refunded = <<>>
    /\ minted = <<>>
    /\ events = <<>>
    /\ finalized_at = <<>>
    /\ revealed = <<>>
    /\ key_id = <<>>
    /\ call = NoCall

\* the object a successful constructor shares
Share(m, sender, mintable, supply, n, strat, start, end) ==
    /\ live' = "shared"
    /\ module' = m
    /\ creator' = sender
    /\ total_supply' = supply
    /\ winner_count' = n
    /\ strategy' = strat
    /\ start_time' = start
    /\ end_time' = end
    /\ encrypted_bids' = <<>>
    /\ payment_pool' = 0
    /\ finalized' = FALSE
    /\ treasury_cap' = HeldCap(sender, mintable)
    /\ key_id' = generate_key_id(end)
    /\ call' = Call("create", sender)
    /\ UNCHANGED <<now, refunded, minted, revealed, events, finalized_at>>

\* ------------------------------------------------------------ the clock

Tick ==
    /\ now < MaxTime
    /\ now' = now + 1
    /\ call' = NoCall
    /\ UNCHANGED <<live, params, ledger>>

\* ------------------------------------------------------------ simple_auction

create_simple_auction(sender, mintable, supply, n, strat, start, end) ==
    /\ live = "none"
    /\ CreateSimpleGuard(strat, start, end, now) = Ok
    /\ Share("simple_auction", sender, mintable, supply, n, strat, start, end)

place_simple_bid(sender, encrypted_bid_data, payment) ==
    /\ live = "shared" /\ module = "simple_auction"
    /\ Len(encrypted_bids) < MaxBids
    /\ PlaceSimpleBidGuard(now, payment) = Ok
    /\ payment_pool' = Join(payment_pool, payment)
    /\ encrypted_bids' = PushBack(encrypted_bids,
                                  [bidder |-> sender,
                                   encrypted_data |-> encrypted_bid_data,
                                   payment_amount |-> payment])
    /\ call' = Call("place_bid", sender)
    /\ UNCHANGED <<now, live, params, finalized, treasury_cap, refunded, minted, revealed,
                   events, finalized_at>>

\* mutant: an abort after the guards does not undo the call
FinalizeSimpleCodeGuardsOnly(sender, seed) == FinalizeSimpleGuard(now, sender)

\* mutant: no early return for an auction without bids
FinalizeSimpleCodeNoEmptyCase(sender, seed) ==
    IF FinalizeSimpleGuard(now, sender) # Ok THEN FinalizeSimpleGuard(now, sender)
    ELSE Settle(encrypted_bids, strategy, winner_count, total_supply,
                treasury_cap, payment_pool, seed).code

\* what a finalize_simple_auction call returns: Ok or the abort code
FinalizeSimpleCode(sender, seed) ==
    IF FinalizeSimpleGuard(now, sender) # Ok THEN FinalizeSimpleGuard(now, sender)
    ELSE IF Len(encrypted_bids) = 0 THEN Ok
    ELSE Settle(encrypted_bids, strategy, winner_count, total_supply,
                treasury_cap, payment_pool, seed).code

finalize_simple_auction(sender, seed) ==
    /\ live = "shared" /\ module = "simple_auction"
    /\ FinalizeSimpleCode(sender, seed) = Ok
    /\ finalized' = TRUE
    /\ finalized_at' = Append(finalized_at, now)
    /\ call' = Call("finalize", sender)
    /\ IF Len(encrypted_bids) = 0
       THEN /\ events' = Append(events, 0)
            /\ UNCHANGED <<payment_pool, treasury_cap, refunded, minted, revealed>>
       ELSE LET s == Settle(encrypted_bids, strategy, winner_count, total_supply,
                            treasury_cap, payment_pool, seed)
            IN /\ treasury_cap' = s.treasury
               /\ minted' = minted \o s.minted
               /\ payment_pool' = s.pool
               /\ refunded' = refunded \o s.refunded
               /\ events' = Append(events, Len(s.winners))
               /\ revealed' = [i \in 1 .. Len(encrypted_bids) |->
                                  DecryptAll(encrypted_bids)[i].amount]
    /\ UNCHANGED <<now, live, params, encrypted_bids>>

\* what a cancel_simple_auction call returns: Ok or the abort code
CancelCode(sender) ==
    LET r == RefundAll(payment_pool, encrypted_bids, 1, <<>>)
    IN IF CancelGuard(now, sender) # Ok THEN CancelGuard(now, sender)
       ELSE IF r.code # Ok THEN r.code
       ELSE IF r.pool # 0 THEN EBalanceNonZero
       ELSE Ok

cancel_simple_auction(sender) ==
    /\ live = "shared" /\ module = "simple_auction"
    /\ CancelCode(sender) = Ok
    /\ live' = "deleted"
    /\ payment_pool' = RefundAll(payment_pool, encrypted_bids, 1, <<>>).pool
    /\ refunded' = refunded \o RefundAll(payment_pool, encrypted_bids, 1, <<>>).log
    /\ treasury_cap' = [treasury_cap EXCEPT !.owner = creator]
    /\ call' = Call("cancel", sender)
    /\ UNCHANGED <<now, params, encrypted_bids, finalized, minted, revealed, events, finalized_at>>

\* ------------------------------------------------ auction, enhanced_auction

create_auction(sender, supply, n, strat, start, end) ==
    /\ live = "none"
    /\ CreateAuctionGuard(strat, start, end) = Ok
    /\ Share("auction", sender, TRUE, supply, n, strat, start, end)

create_enhanced_auction(sender, supply, n, strat, start, end) ==
    /\ live = "none"
    /\ CreateEnhancedGuard(strat, start, end) = Ok
    /\ Share("enhanced_auction", sender, TRUE, supply, n, strat, start, end)

place_bid(m, sender, encrypted_bid_data, payment) ==
    /\ live = "shared" /\ module = m
    /\ Len(encrypted_bids) < MaxBids
    /\ PlaceBidGuard(now) = Ok
    /\ encrypted_bids' = PushBack(encrypted_bids,
                                  [bidder |-> sender,
                                   encrypted_data |-> encrypted_bid_data,
                                   payment_amount |-> payment])
    /\ payment_pool' = Join(payment_pool, payment)
    /\ call' = Call("place_bid", sender)
    /\ UNCHANGED <<now, live, params, finalized, treasury_cap, refunded, minted, revealed,
                   events, finalized_at>>

finalize_auction(m, sender) ==
    /\ live = "shared" /\ module = m
    /\ FinalizeGuard(now, sender) = Ok
    /\ finalized' = TRUE
    /\ finalized_at' = Append(finalized_at, now)
    /\ events' = Append(events, winner_count)
    /\ call' = Call("finalize", sender)
    /\ UNCHANGED <<now, live, params, encrypted_bids, payment_pool, treasury_cap,
                   refunded, minted, revealed>>

\* what a distribute_tokens call returns: Ok or the abort code
DistributeCode(sender, amount) ==
    IF PayoutGuard(sender) # Ok THEN PayoutGuard(sender)
    ELSE IF treasury_cap.total_supply + amount > MAX_U64 THEN EArithmetic
    ELSE Ok

distribute_tokens(m, sender, winner, amount) ==
    /\ live = "shared" /\ module = m
    /\ Len(minted) + Len(refunded) < MaxPayouts
    /\ DistributeCode(sender, amount) = Ok
    /\ treasury_cap' = [treasury_cap EXCEPT
                          !.total_supply = treasury_cap.total_supply + amount]
    /\ minted' = Append(minted, [recipient |-> winner, amount |-> amount])
    /\ call' = Call("distribute", sender)
    /\ UNCHANGED <<now, live, params, encrypted_bids, payment_pool, finalized,
                   refunded, events, finalized_at, revealed>>

\* what a refund call returns: Ok or the abort code
RefundCode(sender, amount) ==
    IF PayoutGuard(sender) # Ok THEN PayoutGuard(sender)
    ELSE IF amount > payment_pool THEN EBalanceNotEnough
    ELSE Ok

refund(m, sender, recipient, amount) ==
    /\ live = "shared" /\ module = m
    /\ Len(minted) + Len(refunded) < MaxPayouts
    /\ RefundCode(sender, amount) = Ok
    /\ payment_pool' = payment_pool - amount
    /\ refunded' = Append(refunded, [recipient |-> recipient, amount |-> amount])
    /\ call' = Call("refund", sender)
    /\ UNCHANGED <<now, live, params, encrypted_bids, finalized, treasury_cap,
                   minted, revealed, events, finalized_at>>

\* ------------------------------------------------------------ specification

SimpleStep ==
    \/ \E sender \in Creators, mintable \in BOOLEAN, supply \in 0 .. MaxSupply,
          n \in 0 .. MaxWinners, strat \in Strategies, start \in Times, end \in Times :
            create_simple_auction(sender, mintable, supply, n, strat, start, end)
    \/ \E sender \in Addr, data \in Payloads, payment \in 0 .. MaxPayment :
            place_simple_bid(sender, data, payment)
    \/ \E sender \in Addr, seed \in Digests : finalize_simple_auction(sender, seed)
    \/ \E sender \in Addr : cancel_simple_auction(sender)

ModuleStep(m) ==
    \/ \E sender \in Addr, data \in OpaquePayloads, payment \in 0 .. MaxPayment :
            place_bid(m, sender, data, payment)
    \/ \E sender \in Addr : finalize_auction(m, sender)
    \/ \E sender \in Addr, winner \in Addr, amount \in 0 .. MaxSupply + 1 :
            distribute_tokens(m, sender, winner, amount)
    \/ \E sender \in Addr, recipient \in Addr, amount \in 0 .. MaxPayment :
            refund(m, sender, recipient, amount)

AuctionStep ==
    \/ \E sender \in Creators, supply \in 0 .. MaxSupply, n \in 0 .. MaxWinners,
          strat \in StoredStrategies, start \in Times, end \in Times :
            create_auction(sender, supply, n, strat, start, end)
    \/ ModuleStep("auction")

EnhancedStep ==
    \/ \E sender \in Creators, supply \in 0 .. MaxSupply, n \in 0 .. MaxWinners,
          strat \in StoredStrategies, start \in Times, end \in Times :
            create_enhanced_auction(sender, supply, n, strat, start, end)
    \/ ModuleStep("enhanced_auction")

Next == Tick \/ SimpleStep \/ AuctionStep \/ EnhancedStep

Spec == Init /\ [][Next]_vars

\* ------------------------------------------- settlement of a closed auction

\* the bidder of the i-th recorded bid: one address per position
SelBidders == <<"A", "B", "C", "D", "E", "F">>
\* bid payloads "1", "2" and "30"
SelPayloads == {<<49>>, <<50>>, <<51, 48>>}
\* transaction digests, scaled from 32 bytes to 2
SelDigests == [1 .. 2 -> 0 .. 3]
SelWinners == 0 .. SelMaxBids + 1
SelBidLists == UNION {[1 .. k -> SelPayloads] : k \in 0 .. SelMaxBids}

\* the bids place_simple_bid recorded for these payloads, one unit paid with each
SelBids(payloads) ==
    [i \in 1 .. Len(payloads) |->
        [bidder |-> SelBidders[i], encrypted_data |-> payloads[i], payment_amount |-> 1]]

\* a simple_auction whose bidding has closed at end_time, with the bids it recorded
SelInit ==
    /\ now = 1
    /\ live = "shared"
    /\ module = "simple_auction"
    /\ creator = "A"
    /\ total_supply = SelSupply
    /\ winner_count \in SelWinners
    /\ strategy \in STRATEGY_TOP_N .. STRATEGY_CLOSEST_TO_AVG
    /\ start_time = 0
    /\ end_time = 1
    /\ \E payloads \in SelBidLists : encrypted_bids = SelBids(payloads)
    /\ payment_pool = SumPayments(encrypted_bids)
    /\ finalized = FALSE
    /\ treasury_cap = HeldCap(creator, TRUE)
    /\ refunded = <<>>
    /\ minted = <<>>
    /\ events = <<>>
    /\ finalized_at = <<>>
    /\ revealed = <<>>
    /\ key_id = generate_key_id(end_time)
    /\ call = NoCall

SelNext == \E seed \in SelDigests : finalize_simple_auction(creator, seed)

SelSpec == SelInit /\ [][SelNext]_vars

\* ------------------------------------------- the time lock of a key id

\* entry fun seal_approve(id, clock): returns only when the policy holds
seal_approve(sender) ==
    /\ SealApproveCode(key_id, now) = Ok
    /\ call' = Call("seal_approve", sender)
    /\ UNCHANGED <<now, live, params, ledger>>

\* clock readings and end times on both sides of a byte boundary of the encoding
GateTimes == {0, 1, 2, 255, 256, 257, 65535, 65536}

\* ids a caller can present for an end time: the generated one, the generated
\* one followed by one more byte, and one cut short by a byte
GateKeyIds(end) ==
    {generate_key_id(end),
     generate_key_id(end) \o <<0>>,
     SubSeq(generate_key_id(end), 1, U64_BYTES - 1)}

\* a key id presented to the policy at some clock reading
GateInit ==
    /\ now \in GateTimes
    /\ live = "none"
    /\ module = "simple_auction"
    /\ creator = "A"
    /\ total_supply = 0
    /\ winner_count = 0
    /\ strategy = 0
    /\ start_time = 0
    /\ end_time \in GateTimes
    /\ encrypted_bids = <<>>
    /\ payment_pool = 0
    /\ finalized = FALSE
    /\ treasury_cap = [owner |-> "A", mintable |-> TRUE, total_supply |-> 0]
    /\ refunded = <<>>
    /\ minted = <<>>
    /\ events = <<>>
    /\ finalized_at = <<>>
    /\ revealed = <<>>
    /\ key_id \in GateKeyIds(end_time)
    /\ call = NoCall

\* the clock moves on to a later reading
GateTick ==
    /\ \E t \in GateTimes : t > now /\ now' = t
    /\ call' = NoCall
    /\ UNCHANGED <<live, params, ledger>>

GateNext == GateTick \/ \E sender \in Addr : seal_approve(sender)

GateSpec == GateInit /\ [][GateNext]_vars

\* ------------------------------------------- revelation of recorded payloads

\* payload bytes: '/', '0', '1', '2', '9', ':' and 'a', the digits and their neighbours
ParseBytes == {47, 48, 49, 50, 57, 58, 97}
ParsePayloads == UNION {[1 .. k -> ParseBytes] : k \in 0 .. ParseMaxLen}
\* payloads of a second bid, recorded after the first
ParseSeconds == {<<50, 97>>, <<>>}
ParseBidLists ==
    {<<p>> : p \in ParsePayloads} \cup {<<p, q>> : p \in ParsePayloads, q \in ParseSeconds}

\* a top-N simple_auction closed at end_time with the bids it recorded for any payloads
ParseInit ==
    /\ now = 1
    /\ live = "shared"
    /\ module = "simple_auction"
    /\ creator = "A"
    /\ total_supply = SelSupply
    /\ winner_count = 1
    /\ strategy = STRATEGY_TOP_N
    /\ start_time = 0
    /\ end_time = 1
    /\ \E payloads \in ParseBidLists : encrypted_bids = SelBids(payloads)
    /\ payment_pool = SumPayments(encrypted_bids)
    /\ finalized = FALSE
    /\ treasury_cap = HeldCap(creator, TRUE)
    /\ refunded = <<>>
    /\ minted = <<>>
    /\ events = <<>>
    /\ finalized_at = <<>>
    /\ revealed = <<>>
    /\ key_id = generate_key_id(end_time)
    /\ call = NoCall

ParseNext == \E seed \in Digests : finalize_simple_auction(creator, seed)

ParseSpec == ParseInit /\ [][ParseNext]_vars

\* ------------------------------------------- settlement under arrival orders

OrdBidLists == UNION {[1 .. k -> SelPayloads] : k \in 0 .. OrdMaxBids}

\* a simple_auction closed at end_time with up to OrdMaxBids recorded bids
OrdInit ==
    /\ now = 1
    /\ live = "shared"
    /\ module = "simple_auction"
    /\ creator = "A"
    /\ total_supply = SelSupply
    /\ winner_count \in 0 .. OrdMaxBids + 1
    /\ strategy \in STRATEGY_TOP_N .. STRATEGY_CLOSEST_TO_AVG
    /\ start_time = 0
    /\ end_time = 1
    /\ \E payloads \in OrdBidLists : encrypted_bids = SelBids(payloads)
    /\ payment_pool = SumPayments(encrypted_bids)
    /\ finalized = FALSE
    /\ treasury_cap = HeldCap(creator, TRUE)
    /\ refunded = <<>>
    /\ minted = <<>>
    /\ events = <<>>
    /\ finalized_at = <<>>
    /\ revealed = <<>>
    /\ key_id = generate_key_id(end_time)
    /\ call = NoCall

OrdNext == \E seed \in SelDigests : finalize_simple_auction(creator, seed)

OrdSpec == OrdInit /\ [][OrdNext]_vars

\* ------------------------------------------- bidding against the time lock

\* auctions of the three modules with every start and end time, their bids,
\* and seal_approve calls on the key id of the auction's end_time
LockNext ==
    \/ Tick
    \/ \E sender \in Creators, start \in Times, end \in Times :
            \/ create_simple_auction(sender, TRUE, 1, 1, STRATEGY_TOP_N, start, end)
            \/ create_auction(sender, 1, 1, STRATEGY_TOP_N, start, end)
            \/ create_enhanced_auction(sender, 1, 1, STRATEGY_TOP_N, start, end)
    \/ \E sender \in Addr, data \in Payloads, payment \in 0 .. MaxPayment :
            place_simple_bid(sender, data, payment)
    \/ \E sender \in Addr, data \in OpaquePayloads, payment \in 0 .. MaxPayment :
            \/ place_bid("auction", sender, data, payment)
            \/ place_bid("enhanced_auction", sender, data, payment)
    \/ \E sender \in Addr : seal_approve(sender)

LockSpec == Init /\ [][LockNext]_vars

\* ------------------------------------------------------------ claims

IsSimple == module = "simple_auction"
IsGeneric == module \in {"auction", "enhanced_auction"}

\* what a place-bid call with this payment returns in the current state
PlaceBidCodeOf(payment) ==
    IF IsSimple THEN PlaceSimpleBidGuard(now, payment) ELSE PlaceBidGuard(now)

\* what a finalize call by this sender returns in the current state
FinalizeCodeOf(sender, seed) ==
    IF IsSimple THEN FinalizeSimpleCode(sender, seed) ELSE FinalizeGuard(now, sender)

\* C1: escrow conservation in simple_auction: once finalize_simple_auction has
\* succeeded, the refunds issued sum to the payments of all recorded bids and
\* payment_pool is exactly 0.
C1_EscrowConservation ==
    (IsSimple /\ finalized) =>
        /\ SumAmounts(refunded) = SumPayments(encrypted_bids)
        /\ payment_pool = 0

C1_Witness ==
    /\ IsSimple /\ finalized /\ call.op = "finalize"
    /\ Len(encrypted_bids) = MaxBids
    /\ SumAmounts(refunded) = 3
    /\ payment_pool = 0

\* C2: per-bidder refund in simple_auction: after a successful finalize every
\* recorded bid, winner or loser, under every strategy, has had exactly its own
\* payment_amount transferred to its own bidder, one coin per bid.
C2_PerBidderRefund ==
    (IsSimple /\ finalized) =>
        /\ Len(refunded) = Len(encrypted_bids)
        /\ \A k \in 1 .. Len(encrypted_bids) :
              /\ refunded[k].recipient = encrypted_bids[k].bidder
              /\ refunded[k].amount = encrypted_bids[k].payment_amount

\* the scenario scaled to two bids: amounts 1 and 3, one winner (the second bid),
\* winner and loser both refunded in full
C2_Witness ==
    /\ IsSimple /\ finalized /\ strategy = STRATEGY_TOP_N /\ winner_count = 1
    /\ Len(encrypted_bids) = 2
    /\ encrypted_bids[1].bidder = "B" /\ encrypted_bids[2].bidder = "C"
    /\ parse_bid_amount(encrypted_bids[1].encrypted_data) = 1
    /\ parse_bid_amount(encrypted_bids[2].encrypted_data) = 3
    /\ minted = <<[recipient |-> "C", amount |-> total_supply]>>
    /\ refunded = <<[recipient |-> "B", amount |-> encrypted_bids[1].payment_amount],
                    [recipient |-> "C", amount |-> encrypted_bids[2].payment_amount]>>
    /\ encrypted_bids[1].payment_amount # encrypted_bids[2].payment_amount

\* C3: while an auction of any of the three modules exists and is not finalized,
\* payment_pool equals the sum of payment_amount over encrypted_bids.
C3_PoolIsSumOfPayments ==
    (live = "shared" /\ ~finalized) => payment_pool = SumPayments(encrypted_bids)

C3_Witness ==
    /\ live = "shared" /\ ~finalized /\ module = "auction"
    /\ Len(encrypted_bids) = 2
    /\ encrypted_bids[1].payment_amount = 0
    /\ encrypted_bids[2].payment_amount = MaxPayment
    /\ payment_pool = MaxPayment

\* C4: in auction and enhanced_auction escrow is a refundable deposit: every
\* amount that leaves payment_pool is paid to an address that placed a bid, no
\* bidder receives more than the total they posted, and total refunded plus
\* the remaining pool equals the total collected.
C4_RefundableDeposit ==
    IsGeneric =>
        /\ \A k \in 1 .. Len(refunded) :
              refunded[k].amount > 0 => refunded[k].recipient \in Bidders(encrypted_bids)
        /\ \A a \in Addr : PaidTo(refunded, a) <= PostedBy(encrypted_bids, a)
        /\ payment_pool >= 0
        /\ SumAmounts(refunded) + payment_pool = SumPayments(encrypted_bids)

\* C5: bid window: on an auction that is not finalized a place-bid call with a
\* positive payment is accepted exactly when start_time <= now < end_time; it
\* fails with EAuctionNotStarted at now < start_time, with EAuctionEnded at
\* now >= end_time, and is accepted at now = end_time - 1, where the accepted
\* bid is the one new element of encrypted_bids.
C5_BidWindow ==
    /\ (live = "shared" /\ ~finalized) =>
          \A payment \in 1 .. MaxPayment :
              /\ PlaceBidCodeOf(payment) = Ok <=> (start_time <= now /\ now < end_time)
              /\ now < start_time => PlaceBidCodeOf(payment) = EAuctionNotStarted
              /\ now >= end_time => PlaceBidCodeOf(payment) = EAuctionEnded
              /\ now = end_time - 1 => PlaceBidCodeOf(payment) = Ok
    /\ call.op = "place_bid" =>
          /\ start_time <= now /\ now < end_time
          /\ Len(encrypted_bids) >= 1
          /\ encrypted_bids[Len(encrypted_bids)].bidder = call.sender

\* C6: finalize is time-gated: every finalize that succeeded read a clock value
\* now >= end_time, and while now < end_time a finalize call fails with
\* EAuctionNotEnded whoever sends it, the creator included.
C6_FinalizeTimeGated ==
    /\ finalized => Len(finalized_at) >= 1
    /\ \A k \in 1 .. Len(finalized_at) : finalized_at[k] >= end_time
    /\ (live = "shared" /\ now < end_time) =>
          \A sender \in Addr, seed \in Digests :
              FinalizeCodeOf(sender, seed) = EAuctionNotEnded

C6_Witness ==
    /\ finalized /\ call.op = "finalize"
    /\ finalized_at = <<end_time>>
    /\ Len(encrypted_bids) >= 1

C8_IdempotentTerminality ==
    [][/\ (live = "shared" /\ finalized) =>
             \A seed \in Digests : FinalizeCodeOf(creator, seed) = EAlreadyFinalized
       /\ finalized =>
             /\ finalized'
             /\ events' = events
             /\ finalized_at' = finalized_at
             /\ encrypted_bids' = encrypted_bids
             /\ IsSimple => /\ minted' = minted
                            /\ refunded' = refunded
                            /\ payment_pool' = payment_pool
       /\ live = "deleted" => UNCHANGED <<live, ledger>>]_vars

C8_Witness ==
    /\ live = "shared" /\ IsSimple /\ finalized /\ call = NoCall
    /\ Len(encrypted_bids) >= 1 /\ Len(minted) >= 1
    /\ \A seed \in Digests : FinalizeCodeOf(creator, seed) = EAlreadyFinalized

\* C9: settlement excludes bidding: the step that sets finalized appends no
\* bid and, in simple_auction, refunds every bid recorded before it; after it
\* no bid is appended, no place-bid call is accepted and the pool does not grow.
C9_SettlementExcludesBidding ==
    [][/\ (finalized \/ finalized') =>
             /\ encrypted_bids' = encrypted_bids
             /\ payment_pool' <= payment_pool
       /\ (live = "shared" /\ finalized) =>
             \A payment \in 0 .. MaxPayment : PlaceBidCodeOf(payment) # Ok
       /\ (IsSimple /\ ~finalized /\ finalized') =>
             \A a \in Addr :
                 PaidTo(refunded', a) - PaidTo(refunded, a) = PostedBy(encrypted_bids, a)]_vars

C9_Witness ==
    /\ live = "shared" /\ finalized /\ call.op = "finalize"
    /\ Len(encrypted_bids) = 1
    /\ now = end_time
    /\ \A payment \in 0 .. MaxPayment : PlaceBidCodeOf(payment) # Ok

\* C10: a place-bid call on a finalized auction is rejected with
\* EAlreadyFinalized, so that the caller can tell it from an ended auction.
C10_FinalizedBidRejectedAsFinalized ==
    (live = "shared" /\ finalized) =>
        \A payment \in 1 .. MaxPayment : PlaceBidCodeOf(payment) = EAlreadyFinalized

\* C11: guard failures are not partially applied in simple_auction: a step
\* changes the bids, the pool, the finalized flag, the treasury cap or the coins
\* minted or transferred only when the guards of the call that made it hold
\* (time window, not finalized and a positive payment for a bid; end reached,
\* creator and not finalized for finalize; before start and creator for cancel).
C11_GuardFailuresNotApplied ==
    [][(/\ IsSimple /\ live = "shared"
        /\ <<encrypted_bids, payment_pool, finalized, treasury_cap, minted, refunded, live>>'
              # <<encrypted_bids, payment_pool, finalized, treasury_cap, minted, refunded, live>>)
       => \/ /\ call'.op = "place_bid"
             /\ start_time <= now /\ now < end_time /\ ~finalized
             /\ Len(encrypted_bids') = Len(encrypted_bids) + 1
             /\ encrypted_bids'[Len(encrypted_bids')].payment_amount > 0
             /\ payment_pool' = payment_pool + encrypted_bids'[Len(encrypted_bids')].payment_amount
             /\ UNCHANGED <<finalized, treasury_cap, minted, refunded, live>>
          \/ /\ call'.op = "finalize"
             /\ now >= end_time /\ call'.sender = creator /\ ~finalized
          \/ /\ call'.op = "cancel"
             /\ now < start_time /\ call'.sender = creator]_vars

C11_Witness ==
    /\ IsSimple /\ live = "shared" /\ ~finalized /\ call = NoCall
    /\ Len(encrypted_bids) >= 1 /\ payment_pool > 0
    /\ PlaceSimpleBidGuard(now, MaxPayment) = EAuctionEnded
    /\ CancelCode(creator) = EAuctionNotStarted
    /\ \A seed \in Digests : FinalizeSimpleCode("B", seed) = ENotAuctionCreator

\* C12: settlement of a simple_auction is all-or-nothing: a finalized auction
\* has an empty pool, one completion event and one mint per winner; an auction
\* that is not finalized, also one whose finalize aborts after the guards, has
\* no mint, no refund, no event and its whole pool.
C12_SettlementAllOrNothing ==
    (IsSimple /\ live = "shared") =>
        /\ finalized =>
              /\ payment_pool = 0
              /\ Len(events) = 1
              /\ Len(minted) = events[1]
              /\ treasury_cap.total_supply = SumAmounts(minted)
        /\ ~finalized =>
              /\ minted = <<>> /\ refunded = <<>> /\ events = <<>>
              /\ treasury_cap.total_supply = 0
              /\ payment_pool = SumPayments(encrypted_bids)

C12_Witness ==
    /\ IsSimple /\ live = "shared" /\ ~finalized /\ call = NoCall
    /\ Len(encrypted_bids) >= 1 /\ payment_pool > 0 /\ minted = <<>> /\ refunded = <<>>
    /\ FinalizeSimpleGuard(now, creator) = Ok
    /\ \A seed \in Digests : FinalizeSimpleCode(creator, seed) = E_NOT_MINTABLE

\* C13: lifecycle of a simple_auction: a finalized auction stays finalized and
\* stays in place, a cancelled auction stays gone, no auction is finalized and
\* cancelled, and cancel_simple_auction fails for every sender once the auction
\* is finalized.
C13_Lifecycle ==
    [][IsSimple =>
          /\ (live = "shared" /\ finalized) =>
                /\ live' = "shared" /\ finalized'
                /\ \A sender \in Addr : CancelCode(sender) # Ok
          /\ live = "shared" => (live' \in {"shared", "deleted"} /\ module' = module)
          /\ live = "deleted" => live' = "deleted"
          /\ live' = "deleted" => ~finalized']_vars

C13_Witness ==
    /\ IsSimple /\ live = "shared" /\ finalized /\ call = NoCall
    /\ encrypted_bids = <<>>
    /\ CancelCode(creator) = EAuctionNotStarted

\* C14: cancellation guard: cancel_simple_auction succeeds exactly for the
\* creator at now < start_time; at now >= start_time it fails for every sender
\* and the auction stays, with or without bids.
C14_CancelGuard ==
    /\ (IsSimple /\ live = "shared") =>
          \A sender \in Addr :
              /\ CancelCode(sender) = Ok <=> (sender = creator /\ now < start_time)
              /\ now >= start_time => CancelCode(sender) = EAuctionNotStarted
    /\ call.op = "cancel" =>
          /\ live = "deleted" /\ call.sender = creator /\ now < start_time
    /\ live = "deleted" => IsSimple

C14_Witness ==
    /\ live = "deleted" /\ call = Call("cancel", creator)
    /\ now < start_time /\ refunded = <<>> /\ treasury_cap.owner = creator

\* C15: every auction object that exists satisfies start_time < end_time,
\* whichever constructor created it.
C15_StartBeforeEnd ==
    live = "shared" => start_time < end_time

\* C20: empty-auction finalize: with zero bids the creator's finalize at
\* now >= end_time succeeds for every strategy, winner_count and treasury; the
\* finalized auction has no mint, no refund, an unchanged treasury supply and a
\* completion event with winner_count 0.
C20_EmptyFinalize ==
    (IsSimple /\ live = "shared" /\ encrypted_bids = <<>>) =>
        /\ (~finalized /\ now >= end_time) =>
              \A seed \in Digests : FinalizeSimpleCode(creator, seed) = Ok
        /\ finalized =>
              /\ minted = <<>> /\ refunded = <<>>
              /\ treasury_cap.total_supply = 0
              /\ events = <<0>>
              /\ payment_pool = 0

C20_Witness ==
    /\ IsSimple /\ live = "shared" /\ finalized /\ call.op = "finalize"
    /\ encrypted_bids = <<>> /\ events = <<0>>
    /\ strategy = STRATEGY_CLOSEST_TO_AVG /\ winner_count = MaxWinners
    /\ ~treasury_cap.mintable

\* the number of revealed bids that come before bid i when the list is ordered
\* by amount descending, equal amounts by position
TopRank(d, i) ==
    Cardinality({j \in 1 .. Len(d) :
                    \/ d[j].amount > d[i].amount
                    \/ (d[j].amount = d[i].amount /\ j < i)})

\* the same for the order by distance to the mean ascending, equal distances by position
MeanRank(d, i, mean) ==
    Cardinality({j \in 1 .. Len(d) :
                    \/ Distance(d[j].amount, mean) < Distance(d[i].amount, mean)
                    \/ (Distance(d[j].amount, mean) = Distance(d[i].amount, mean) /\ j < i)})

PairwiseDistinct(w) ==
    \A a, b \in 1 .. Len(w) : a # b => w[a].index # w[b].index

\* C16: HighestN: select_top_n_winners returns, in order, the first
\* min(n, bid count) bids of the list ordered by amount descending, equal
\* amounts by smaller origin index first; finalize mints to them in that order.
C16_HighestN ==
    LET d == DecryptAll(encrypted_bids)
        w == select_top_n_winners(d, winner_count)
    IN /\ Len(w) = Min(winner_count, Len(d))
       /\ \A i \in 1 .. Len(d) : TopRank(d, i) < Len(w) => w[TopRank(d, i) + 1] = d[i]
       /\ (finalized /\ strategy = STRATEGY_TOP_N) =>
             /\ Len(minted) = Len(w)
             /\ \A k \in 1 .. Len(w) : minted[k].recipient = w[k].bidder

C16_Witness ==
    /\ finalized /\ strategy = STRATEGY_TOP_N /\ winner_count = 2
    /\ Len(encrypted_bids) = 4
    /\ [i \in 1 .. 4 |-> encrypted_bids[i].encrypted_data] = <<<<50>>, <<51, 48>>, <<51, 48>>, <<49>>>>
    /\ [k \in 1 .. Len(minted) |-> minted[k].recipient] = <<"B", "C">>

\* C17: ClosestToMeanN: for every non-empty list of revealed bids
\* select_closest_to_avg_winners returns the first min(n, bid count) bids of the
\* list ordered by |amount - mean| ascending, equal distances by smaller origin
\* index first, mean being the truncated quotient of the sum of all amounts by
\* the number of bids.
C17_ClosestToMeanN ==
    LET d == DecryptAll(encrypted_bids)
        mean == SumAmounts(d) \div Len(d)
        w == select_closest_to_avg_winners(d, winner_count)
    IN (strategy = STRATEGY_CLOSEST_TO_AVG /\ Len(d) > 0) =>
          /\ ~AverageAborts(d)
          /\ Len(w) = Min(winner_count, Len(d))
          /\ \A i \in 1 .. Len(d) :
                MeanRank(d, i, mean) < Len(w) => w[MeanRank(d, i, mean) + 1] = d[i]

\* C18: RandomN: for every seed select_random_n_winners returns exactly
\* min(n, bid count) bids with pairwise distinct origin indices, each the bid
\* recorded at its index, and the winners finalize mints to are the ones the
\* function gives for some seed and the recorded bids and winner_count alone.
C18_RandomN ==
    LET d == DecryptAll(encrypted_bids)
    IN /\ \A seed \in SelDigests :
             LET w == select_random_n_winners(d, winner_count, seed)
             IN /\ Len(w) = Min(winner_count, Len(d))
                /\ PairwiseDistinct(w)
                /\ \A a \in 1 .. Len(w) : w[a] = d[w[a].index + 1]
       /\ (finalized /\ strategy = STRATEGY_RANDOM_N) =>
             \E seed \in SelDigests :
                 LET w == select_random_n_winners(d, winner_count, seed)
                 IN /\ Len(minted) = Len(w)
                    /\ \A k \in 1 .. Len(w) : minted[k].recipient = w[k].bidder

C18_Witness ==
    /\ finalized /\ strategy = STRATEGY_RANDOM_N
    /\ Len(encrypted_bids) = SelMaxBids /\ winner_count = SelMaxBids
    /\ [k \in 1 .. Len(minted) |-> minted[k].recipient] = <<"D", "A", "B", "C">>

\* C19: for each strategy and every winner_count, 0 and values above the bid
\* count included, the winner list finalize_simple_auction computes has length
\* min(winner_count, number of bids) and holds no bid twice.
C19_WinnerListLength ==
    LET d == DecryptAll(encrypted_bids)
    IN /\ \A strat \in STRATEGY_TOP_N .. STRATEGY_CLOSEST_TO_AVG, seed \in SelDigests :
             (Len(d) > 0 /\ (strat = STRATEGY_CLOSEST_TO_AVG => ~AverageAborts(d))) =>
                 /\ Len(SelectWinners(d, strat, winner_count, seed)) = Min(winner_count, Len(d))
                 /\ PairwiseDistinct(SelectWinners(d, strat, winner_count, seed))
       /\ finalized =>
             /\ events = <<Min(winner_count, Len(encrypted_bids))>>
             /\ Len(minted) = events[1]
             /\ \A a, b \in 1 .. Len(minted) : a # b => minted[a].recipient # minted[b].recipient

C19_Witness ==
    /\ finalized /\ strategy = STRATEGY_CLOSEST_TO_AVG
    /\ Len(encrypted_bids) = SelMaxBids - 1 /\ winner_count = SelMaxBids + 1
    /\ events = <<SelMaxBids - 1>> /\ Len(minted) = SelMaxBids - 1

\* C21: distribution arithmetic: a successful finalize_simple_auction with
\* w >= 1 winners mints floor(total_supply / w) units once to each winner and
\* to nobody else; the total minted is w * floor(total_supply / w), at most
\* total_supply, and the remainder total_supply mod w is minted to nobody.
C21_DistributionArithmetic ==
    (finalized /\ events # <<>> /\ events[1] >= 1) =>
        LET w == events[1]
            share == total_supply \div w
        IN /\ Len(minted) = w
           /\ \A k \in 1 .. w : minted[k].amount = share
           /\ \A a, b \in 1 .. w : a # b => minted[a].recipient # minted[b].recipient
           /\ \A k \in 1 .. w : \E i \in 1 .. Len(encrypted_bids) :
                  minted[k].recipient = encrypted_bids[i].bidder
           /\ SumAmounts(minted) = w * share
           /\ SumAmounts(minted) <= total_supply
           /\ total_supply - SumAmounts(minted) = total_supply % w
           /\ treasury_cap.total_supply = SumAmounts(minted)

C21_Witness ==
    /\ finalized /\ events = <<3>>
    /\ total_supply = SelSupply
    /\ [k \in 1 .. Len(minted) |-> minted[k].amount] = <<3, 3, 3>>
    /\ treasury_cap.total_supply = 9

\* C22: time gate: for every end_time and clock value t,
\* check_time_lock_policy(generate_key_id(end_time), t) is false when
\* t < end_time and true when t >= end_time (true at t = end_time), and
\* seal_approve aborts with ENoAccess exactly when it is false; the id decodes
\* back to end_time with no bytes left over.
C22_TimeGate ==
    /\ \A e \in GateTimes, t \in GateTimes :
          LET id == generate_key_id(e)
          IN /\ Len(id) = U64_BYTES
             /\ ~PolicyAborts(id)
             /\ peel_u64(id) = e
             /\ Leftovers(id) = <<>>
             /\ check_time_lock_policy(id, t) <=> t >= e
             /\ SealApproveCode(id, t) = ENoAccess <=> ~check_time_lock_policy(id, t)
             /\ SealApproveCode(id, t) = Ok <=> check_time_lock_policy(id, t)
    /\ key_id = generate_key_id(end_time) =>
          /\ check_time_lock_policy(key_id, now) <=> now >= end_time
          /\ SealApproveCode(key_id, now) = (IF now >= end_time THEN Ok ELSE ENoAccess)
          /\ call.op = "seal_approve" => now >= end_time

C22_Witness ==
    /\ call.op = "seal_approve"
    /\ key_id = generate_key_id(end_time)
    /\ now = end_time /\ end_time = 256

\* C23: plaintext amounts are exposed only behind the gate: payloads are parsed
\* into amounts only inside a finalize step of simple_auction whose own clock
\* reading satisfies now >= end_time, checked in that same step, and no state
\* at a time before end_time holds a revealed amount.
C23_RevealOnlyBehindGate ==
    /\ [][revealed' # revealed =>
              /\ IsSimple /\ live = "shared" /\ ~finalized /\ finalized'
              /\ call'.op = "finalize" /\ call'.sender = creator
              /\ now >= end_time /\ now' = now
              /\ FinalizeSimpleGuard(now, call'.sender) = Ok
              /\ finalized_at' = Append(finalized_at, now)
              /\ revealed' = [i \in 1 .. Len(encrypted_bids) |->
                                 parse_bid_amount(encrypted_bids[i].encrypted_data)]]_vars
    /\ [](now < end_time => revealed = <<>>)
    /\ [](revealed # <<>> => finalized /\ IsSimple /\ finalized_at[1] >= end_time)

C23_Witness ==
    /\ call.op = "finalize" /\ finalized
    /\ revealed = <<3, 1>>
    /\ finalized_at = <<end_time>> /\ now = end_time

\* C24: no bid with payment_amount = 0 is ever recorded: in every reachable
\* state of every auction (simple_auction, auction, enhanced_auction) each
\* element of encrypted_bids has payment_amount > 0, and a zero-payment
\* place-bid call is rejected with EInsufficientPayment.
C24_NoZeroPaymentBid ==
    live = "shared" =>
        /\ \A k \in 1 .. Len(encrypted_bids) : encrypted_bids[k].payment_amount > 0
        /\ (now >= start_time /\ now < end_time /\ ~finalized) =>
               PlaceBidCodeOf(0) = EInsufficientPayment

\* C25: the bid list is append-only: across every step of an auction that
\* still exists the previous encrypted_bids is a prefix of the next one, so its
\* length never decreases and the bidder, payload and payment_amount of a
\* recorded bid never change; a finalize step leaves the list as it is.
C25_BidsAppendOnly ==
    [][(live = "shared" /\ live' = "shared") =>
          /\ Len(encrypted_bids') >= Len(encrypted_bids)
          /\ SubSeq(encrypted_bids', 1, Len(encrypted_bids)) = encrypted_bids
          /\ encrypted_bids' # encrypted_bids =>
                /\ Len(encrypted_bids') = Len(encrypted_bids) + 1
                /\ call'.op = "place_bid"
                /\ encrypted_bids'[Len(encrypted_bids')].bidder = call'.sender
          /\ call'.op = "finalize" => encrypted_bids' = encrypted_bids]_vars

C25_Witness ==
    /\ live = "shared" /\ finalized /\ call.op = "finalize"
    /\ Len(encrypted_bids) = MaxBids
    /\ encrypted_bids[1] # encrypted_bids[2]

\* C26: custody of the mint capability: from creation on the treasury cap is
\* held by the auction object and by nobody else; it goes to the creator only
\* in a successful cancel_simple_auction, and once the auction is finalized it
\* stays in the auction in every later state.
C26_CapCustody ==
    /\ [](live = "shared" => treasury_cap.owner = "auction")
    /\ [](live = "deleted" => treasury_cap.owner = creator /\ ~finalized)
    /\ [][treasury_cap'.owner # treasury_cap.owner =>
              \/ /\ live = "none" /\ live' = "shared" /\ call'.op = "create"
                 /\ treasury_cap'.owner = "auction"
              \/ /\ live = "shared" /\ live' = "deleted" /\ IsSimple
                 /\ call'.op = "cancel" /\ CancelCode(call'.sender) = Ok
                 /\ treasury_cap'.owner = creator]_vars
    /\ [][finalized => (live' = "shared" /\ finalized' /\ treasury_cap'.owner = "auction")]_vars

C26_Witness ==
    /\ live = "shared" /\ IsSimple /\ finalized
    /\ Len(minted) >= 1
    /\ now > finalized_at[1]
    /\ treasury_cap.owner = "auction"

\* C27: in auction and enhanced_auction, distribute_tokens and refund take
\* effect only when the auction is finalized and the sender is the creator:
\* before finalize they abort with EInvalidBid, after it for any other sender
\* with ENotAuctionCreator, and an aborted call mints nothing, transfers
\* nothing and leaves the pool unchanged.
C27_PayoutsGuarded ==
    /\ []((live = "shared" /\ IsGeneric) =>
            \A sender \in Addr, amount \in 0 .. MaxPayment :
                /\ ~finalized =>
                      /\ DistributeCode(sender, amount) = EInvalidBid
                      /\ RefundCode(sender, amount) = EInvalidBid
                /\ (finalized /\ sender # creator) =>
                      /\ DistributeCode(sender, amount) = ENotAuctionCreator
                      /\ RefundCode(sender, amount) = ENotAuctionCreator)
    /\ []((live = "shared" /\ IsGeneric /\ ~finalized) =>
            minted = <<>> /\ refunded = <<>> /\ treasury_cap.total_supply = 0
            /\ payment_pool = SumPayments(encrypted_bids))
    /\ [][(live = "shared" /\ IsGeneric /\
           (minted' # minted \/ refunded' # refunded \/ payment_pool' < payment_pool
            \/ treasury_cap' # treasury_cap)) =>
              /\ finalized /\ call'.sender = creator
              /\ call'.op \in {"distribute", "refund"}]_vars

C27_Witness ==
    /\ live = "shared" /\ IsGeneric /\ finalized
    /\ call = Call("distribute", creator)
    /\ Len(minted) = 1 /\ minted[1].amount > 0
    /\ payment_pool = SumPayments(encrypted_bids) /\ payment_pool > 0

\* C28: settlement is always reachable: in every reachable simple_auction state
\* with finalized = FALSE and now >= end_time a finalize_simple_auction call by
\* the creator succeeds, whatever the recorded payloads, payments, bid count,
\* strategy, winner_count and total_supply are.
C28_SettlementReachable ==
    (live = "shared" /\ IsSimple /\ ~finalized /\ now >= end_time) =>
        \A seed \in Digests : FinalizeSimpleCode(creator, seed) = Ok

\* the digit bytes of a payload, left to right
DigitsOf(payload) == SelectSeq(payload, IsDigit)

\* the base-10 value of a sequence of digit bytes, as an unbounded integer
RECURSIVE Base10(_)
Base10(digits) ==
    IF digits = <<>> THEN 0
    ELSE 10 * Base10(SubSeq(digits, 1, Len(digits) - 1)) + (digits[Len(digits)] - 48)

\* C29: revelation is total over u64: for every payload byte string
\* parse_bid_amount returns a u64 without aborting, so finalize maps each of
\* the k recorded bids to exactly one DecryptedBid whose index is the bid's
\* position in encrypted_bids, and drops none.
C29_RevelationTotal ==
    /\ \A i \in 1 .. Len(encrypted_bids) :
          /\ parse_bid_amount(encrypted_bids[i].encrypted_data) # Aborted
          /\ parse_bid_amount(encrypted_bids[i].encrypted_data) \in 0 .. MAX_U64
    /\ ~DecryptAborts(encrypted_bids)
    /\ Len(DecryptAll(encrypted_bids)) = Len(encrypted_bids)
    /\ \A i \in 1 .. Len(encrypted_bids) :
          /\ DecryptAll(encrypted_bids)[i].index = i - 1
          /\ DecryptAll(encrypted_bids)[i].bidder = encrypted_bids[i].bidder
    /\ finalized => Len(revealed) = Len(encrypted_bids)

\* C30: payload parsing: parse_bid_amount returns the base-10 value of the
\* subsequence of ASCII digit bytes (48..57) of the payload taken left to
\* right, ignoring every other byte; an empty payload or one without a digit
\* byte yields 0, and the bytes of '1a2' yield 12.
C30_ParsesDigits ==
    /\ \A i \in 1 .. Len(encrypted_bids) :
          LET payload == encrypted_bids[i].encrypted_data
          IN /\ parse_bid_amount(payload) = Base10(DigitsOf(payload))
             /\ DigitsOf(payload) = <<>> => parse_bid_amount(payload) = 0
    /\ parse_bid_amount(<<49, 97, 50>>) = 12
    /\ parse_bid_amount(<<>>) = 0
    /\ finalized =>
          revealed = [i \in 1 .. Len(encrypted_bids) |->
                         Base10(DigitsOf(encrypted_bids[i].encrypted_data))]

\* the origin indices of the first i winners of a list
PickedBefore(w, i) == {w[k].index : k \in 1 .. i}

\* C31: RandomN algorithm: for i = 0 .. min(n, bid count) - 1 in order the
\* candidate is seed[i mod len(seed)] mod bid count; if that index was not
\* picked before it is the i-th winner, otherwise the i-th winner is the
\* smallest index not picked so far; the winners are returned in pick order.
C31_RandomNAlgorithm ==
    LET d == DecryptAll(encrypted_bids)
        Picks(seed) == select_random_n_winners(d, winner_count, seed)
        Candidate(seed, i) == seed[(i % Len(seed)) + 1] % Len(d)
        Free(w, i) == (0 .. Len(d) - 1) \ PickedBefore(w, i)
        Follows(w, seed) ==
            /\ Len(w) = Min(winner_count, Len(d))
            /\ \A i \in 0 .. Len(w) - 1 :
                  /\ w[i + 1] = d[w[i + 1].index + 1]
                  /\ w[i + 1].index =
                        IF Candidate(seed, i) \in Free(w, i) THEN Candidate(seed, i)
                        ELSE CHOOSE x \in Free(w, i) : \A y \in Free(w, i) : x <= y
    IN /\ ~finalized => \A seed \in SelDigests : Follows(Picks(seed), seed)
       /\ (finalized /\ strategy = STRATEGY_RANDOM_N) =>
             \E seed \in SelDigests :
                 /\ Follows(Picks(seed), seed)
                 /\ [k \in 1 .. Len(minted) |-> minted[k].recipient] =
                       [k \in 1 .. Len(Picks(seed)) |-> Picks(seed)[k].bidder]

C31_Witness ==
    /\ finalized /\ strategy = STRATEGY_RANDOM_N
    /\ Len(encrypted_bids) = 3 /\ winner_count = 3
    /\ [k \in 1 .. Len(minted) |-> minted[k].recipient] = <<"C", "A", "B">>

\* C32: finalize with more winners than supply: when a simple_auction has
\* w >= 1 winners and total_supply < w, so that the share per winner is 0,
\* finalize_simple_auction by the creator still completes: it sets finalized,
\* gives each winner a share of 0 and refunds every bid in full.
C32_ZeroShareFinalizes ==
    LET w == Min(winner_count, Len(encrypted_bids))
    IN (/\ live = "shared" /\ IsSimple /\ ~finalized /\ now >= end_time
        /\ treasury_cap.mintable
        /\ w >= 1 /\ total_supply < w) =>
           \A seed \in Digests :
               /\ AmountPerWinner(total_supply, w) = 0
               /\ FinalizeSimpleCode(creator, seed) = Ok
               /\ Settle(encrypted_bids, strategy, winner_count, total_supply,
                         treasury_cap, payment_pool, seed).pool = 0

\* C33: creation rejects nonsensical amounts: a create call with
\* total_supply = 0 or winner_count = 0 fails and creates no auction, so every
\* existing auction has total_supply > 0 and winner_count > 0.
C33_CreationRejectsZero ==
    /\ live = "shared" => (total_supply > 0 /\ winner_count > 0)
    /\ call.op = "create" => (total_supply > 0 /\ winner_count > 0)

\* C34: the finalized event reports the actual number of winners: for every
\* finalize that succeeded, in simple_auction, auction and enhanced_auction,
\* the emitted winner_count is min(configured winner_count, number of recorded
\* bids), 0 when there are no bids, and one such event is emitted per auction.
C34_EventReportsActualWinners ==
    /\ finalized => events = <<Min(winner_count, Len(encrypted_bids))>>
    /\ (live = "shared" /\ ~finalized) => events = <<>>

\* the orders in which n bids can arrive
ArrivalOrders(n) == {f \in [1 .. n -> 1 .. n] : \A a, b \in 1 .. n : a # b => f[a] # f[b]}

\* the same bids recorded in another arrival order
Rearranged(bids, order) == [i \in 1 .. Len(bids) |-> bids[order[i]]]

\* finalize_simple_auction's body on a closed auction that recorded these bids
SettleOf(bids, seed) ==
    Settle(bids, strategy, winner_count, total_supply, HeldCap(creator, TRUE),
           SumPayments(bids), seed)

\* C35: arrival order does not affect amount ranking: for HighestN with
\* pairwise distinct amounts and for ClosestToMeanN with pairwise distinct
\* distances to the mean the set of winning bidders is the same for every
\* permutation of the bid list, and for every strategy and permutation each
\* bidder receives the same refund.
C35_ArrivalOrderIrrelevant ==
    LET d == DecryptAll(encrypted_bids)
        mean == SumAmounts(d) \div Len(d)
        distinctAmounts == \A a, b \in 1 .. Len(d) : a # b => d[a].amount # d[b].amount
        distinctDistances ==
            \A a, b \in 1 .. Len(d) :
                a # b => Distance(d[a].amount, mean) # Distance(d[b].amount, mean)
        ranked == \/ strategy = STRATEGY_TOP_N /\ distinctAmounts
                  \/ strategy = STRATEGY_CLOSEST_TO_AVG /\ distinctDistances
        \* the digest is read by the random strategy only
        seeds == IF strategy = STRATEGY_RANDOM_N THEN SelDigests ELSE {<<0, 0>>}
        Same(here, there) ==
            /\ there.code = here.code
            /\ here.code = Ok =>
                  /\ \A b \in Bidders(encrypted_bids) :
                        PaidTo(there.refunded, b) = PaidTo(here.refunded, b)
                  /\ ranked => Bidders(there.winners) = Bidders(here.winners)
    IN Len(encrypted_bids) > 0 =>
          \A order \in ArrivalOrders(Len(encrypted_bids)) :
              /\ ~finalized =>
                    \A seed \in seeds :
                        Same(SettleOf(encrypted_bids, seed),
                             SettleOf(Rearranged(encrypted_bids, order), seed))
              /\ finalized =>
                    LET there == SettleOf(Rearranged(encrypted_bids, order), <<0, 0>>)
                    IN /\ there.code = Ok
                       /\ \A b \in Bidders(encrypted_bids) :
                             PaidTo(refunded, b) = PaidTo(there.refunded, b)
                       /\ ranked =>
                             {minted[k].recipient : k \in 1 .. Len(minted)}
                                 = Bidders(there.winners)

C35_Witness ==
    /\ finalized /\ strategy = STRATEGY_TOP_N /\ winner_count = 2
    /\ [i \in 1 .. Len(encrypted_bids) |-> encrypted_bids[i].encrypted_data]
          = <<<<49>>, <<51, 48>>, <<50>>>>
    /\ {minted[k].recipient : k \in 1 .. Len(minted)} = {"B", "C"}
    /\ \A b \in {"A", "B", "C"} : PaidTo(refunded, b) = 1

\* C36: cancellation never meets a non-empty ledger: under a monotonic clock,
\* in every reachable state in which cancel_simple_auction can succeed
\* (now < start_time) encrypted_bids is empty and payment_pool is 0, so cancel
\* issues no refund and its destroy_zero of the pool cannot abort.
C36_CancelMeetsEmptyLedger ==
    /\ (IsSimple /\ live = "shared" /\ now < start_time) =>
          /\ encrypted_bids = <<>> /\ payment_pool = 0
          /\ RefundAll(payment_pool, encrypted_bids, 1, <<>>) =
                [code |-> Ok, pool |-> 0, log |-> <<>>]
          /\ \A sender \in Addr, payment \in 0 .. MaxPayment :
                PlaceSimpleBidGuard(now, payment) = EAuctionNotStarted
          /\ CancelCode(creator) = Ok
    /\ (IsSimple /\ live = "shared") =>
          \A sender \in Addr :
              CancelCode(sender) \notin {EBalanceNonZero, EBalanceNotEnough}
    /\ live = "deleted" =>
          encrypted_bids = <<>> /\ payment_pool = 0 /\ refunded = <<>>

C36_Witness ==
    /\ live = "deleted" /\ call.op = "cancel"
    /\ now < start_time /\ end_time = MaxTime /\ call.sender = creator
    /\ encrypted_bids = <<>> /\ payment_pool = 0 /\ refunded = <<>>

\* C37: bidding and decryption never overlap: for every auction and clock
\* value a place-bid call can succeed only if seal_approve on
\* generate_key_id(end_time) fails at that clock value; once the time lock of
\* the auction's end_time has opened it stays open and no further bid is
\* accepted.
C37_BiddingExcludesDecryption ==
    /\ [](live = "shared" =>
            /\ key_id = generate_key_id(end_time)
            /\ \A payment \in 0 .. MaxPayment :
                  /\ PlaceBidCodeOf(payment) = Ok => SealApproveCode(key_id, now) = ENoAccess
                  /\ SealApproveCode(key_id, now) = Ok => PlaceBidCodeOf(payment) # Ok
            /\ call.op = "seal_approve" => now >= end_time)
    /\ [][call'.op = "place_bid" => SealApproveCode(key_id, now) = ENoAccess]_vars
    /\ [][(live = "shared" /\ SealApproveCode(key_id, now) = Ok) =>
              /\ SealApproveCode(key_id', now') = Ok
              /\ encrypted_bids' = encrypted_bids]_vars

C37_Witness ==
    /\ live = "shared" /\ call.op = "seal_approve"
    /\ Len(encrypted_bids) = MaxBids
    /\ now = end_time

\* C38: supply cap: over the whole lifetime of an auction the total number of
\* tokens minted through the treasury cap it holds never exceeds the auction's
\* total_supply, in simple_auction inside the single finalize and in auction
\* and enhanced_auction summed over all distribute_tokens calls.
C38_SupplyCap ==
    live = "shared" =>
        /\ SumAmounts(minted) <= total_supply
        /\ treasury_cap.total_supply <= total_supply

\* C39: the reveal gate is total on key ids: for every byte string key_id and
\* clock value check_time_lock_policy returns a boolean without aborting; it
\* returns true if and only if key_id is exactly the 8-byte encoding of an
\* end_time with now >= end_time, and false for a key_id with trailing bytes
\* even when the time has passed.
C39_GateTotal ==
    /\ ~PolicyAborts(key_id)
    /\ SealApproveCode(key_id, now) \in {Ok, ENoAccess}
    /\ ~PolicyAborts(key_id) =>
          /\ check_time_lock_policy(key_id, now) <=>
                \E e \in GateTimes : key_id = generate_key_id(e) /\ now >= e
          /\ Len(key_id) > U64_BYTES => ~check_time_lock_policy(key_id, now)

====
